---- MODULE Spec2Model ----
(***************************************************************************)
(* Model of generateScenario (src/lib/scenario/generateScenario.ts): the   *)
(* input and output schemas, history normalisation, prompt construction,   *)
(* the single awaited generateObject call and the dispatch of its outcome  *)
(* to the optional onFinish / onError callbacks.                           *)
(*                                                                         *)
(* Timestamps are epoch milliseconds taken relative to a fixed origin so   *)
(* that they fit machine integers; only differences of timestamps are used *)
(* by the code.  A quotient ms / DayMs is carried as its numerator ms, the *)
(* division being performed where the code formats it (toFixed(2)).        *)
(***************************************************************************)
EXTENDS Integers, Sequences, FiniteSets, TLC

VARIABLES
    pc,             \* position of the invocation: "idle", "awaiting", "settled", "done"
    input,          \* the input argument of the invocation
    options,        \* the options argument of the invocation
    currentTime,    \* Date.now() read at entry
    prompt,         \* the rendered prompt (sequence of sections)
    serviceResult,  \* what the external model produced (before schema validation)
    awaited,        \* state of the promise returned by generateObject
    trace,          \* calls made by the invocation, in order
    promise         \* state of the promise returned by generateScenario

vars == <<pc, input, options, currentTime, prompt, serviceResult, awaited, trace, promise>>

----------------------------------------------------------------------------
(* Bounds and input domains *)

MaxHistory == 2

MinQuestions == 2
MaxQuestions == 4

DayMs == 1000 * 60 * 60 * 24

T0 == 10 * DayMs

Clock == {T0}

BoundedSeq(S, n) == UNION {[1..k -> S] : k \in 0..n}

Abs(x) == IF x < 0 THEN -x ELSE x

----------------------------------------------------------------------------
(* Values *)

Undefined == [tag |-> "undefined", scenarioContent |-> "", questions |-> <<>>, error |-> ""]

ObjVal(c, qs) == [tag |-> "object", scenarioContent |-> c, questions |-> qs, error |-> ""]

ErrVal(e) == [tag |-> "error", scenarioContent |-> "", questions |-> <<>>, error |-> e]

----------------------------------------------------------------------------
(* Schemas *)

CEFRLevelSchema == {"A1", "A2", "B1", "B2", "C1", "C2"}

UserResponseValue == [responseContent |-> "r", responseTimeSeconds |-> 8,
                      targetLanguageTextShown |-> FALSE,
                      nativeLanguageTextShown |-> TRUE,
                      submittedAt |-> T0 - 7 * DayMs + 1000 * 60 * 60]

NoUserResponse == [responseContent |-> "", responseTimeSeconds |-> 0,
                   targetLanguageTextShown |-> FALSE,
                   nativeLanguageTextShown |-> FALSE,
                   submittedAt |-> 0]

AnsweredQuestion == [questionText |-> "q", hasUserResponse |-> TRUE,
                     userResponse |-> UserResponseValue]

UnansweredQuestion == [questionText |-> "q", hasUserResponse |-> FALSE,
                       userResponse |-> NoUserResponse]

QuestionSchema(q) == q.hasUserResponse

UserScenarioSchema(s) ==
    /\ s.seenAt.isNumber
    /\ \A i \in 1..Len(s.questions) : QuestionSchema(s.questions[i])

GenerateScenarioInputSchema(inp) ==
    /\ inp.currentLevel \in CEFRLevelSchema
    /\ inp.hasUserHistory
    /\ \A i \in 1..Len(inp.userHistory) : UserScenarioSchema(inp.userHistory[i])

\* The schema with the upper bound on the number of questions left out.
GenerateScenarioOutputSchemaNoMax(obj) ==
    /\ obj.tag = "object"
    /\ Len(obj.questions) >= MinQuestions

GenerateScenarioOutputSchema(obj) ==
    /\ obj.tag = "object"
    /\ Len(obj.questions) >= MinQuestions
    /\ Len(obj.questions) <= MaxQuestions

----------------------------------------------------------------------------
(* Inputs the caller may pass *)

SeenAtValues == {[isNumber |-> TRUE, ms |-> T0 - 7 * DayMs],
                 [isNumber |-> TRUE, ms |-> T0 + 36 * 60 * 60 * 1000],
                 [isNumber |-> FALSE, ms |-> 0]}

QuestionLists == {<<>>, <<AnsweredQuestion>>, <<AnsweredQuestion, UnansweredQuestion>>}

Scenarios == [scenarioContent : {"s"}, questions : QuestionLists, seenAt : SeenAtValues]

Inputs ==
    [language : {"Spanish"}, currentLevel : CEFRLevelSchema \cup {"Z9"},
     nativeLanguage : {"English"}, hasUserHistory : {TRUE},
     userHistory : BoundedSeq(Scenarios, MaxHistory)]
    \cup
    [language : {"Spanish"}, currentLevel : {"A2"},
     nativeLanguage : {"English"}, hasUserHistory : {FALSE},
     userHistory : {<<>>}]

CallbackKinds == {"absent", "returns", "throws"}

OptionsValues ==
    [defined : {TRUE}, onFinish : CallbackKinds, onError : CallbackKinds]
    \cup {[defined |-> FALSE, onFinish |-> "absent", onError |-> "absent"]}

GeneratedQuestions(n) == [i \in 1..n |-> [questionText |-> "g"]]

ServiceResults ==
    {ErrVal("NetworkError")}
    \cup {ObjVal(c, GeneratedQuestions(n)) :
            c \in {"", "text"}, n \in (MinQuestions - 1)..(MaxQuestions + 1)}

----------------------------------------------------------------------------
(* Input Normalizer and number formatting *)

TimeSince(now, t) ==
    IF t.isNumber THEN [nan |-> FALSE, ms |-> now - t.ms]
    ELSE [nan |-> TRUE, ms |-> 0]

\* (ms / DayMs).toFixed(2): "NaN" for NaN, otherwise the sign (kept even when
\* the digits round to zero) and the nearest number of hundredths of a day.
\* At an exact tie the binary value of the quotient decides in the code; the
\* timestamps enumerated above produce no tie.
ToFixed2(d) ==
    IF d.nan THEN [nan |-> TRUE, neg |-> FALSE, hundredths |-> 0]
    ELSE [nan |-> FALSE, neg |-> d.ms < 0,
          hundredths |-> (Abs(d.ms) + DayMs \div 200) \div (DayMs \div 100)]

\* input.userHistory.map on undefined, or question.userResponse.submittedAt
\* on a question without userResponse, raises a TypeError.  A seenAt that is
\* no number does not raise: the subtraction yields NaN.
NormalizeThrows(inp) ==
    \/ ~inp.hasUserHistory
    \/ \E i \in 1..Len(inp.userHistory) :
         \E j \in 1..Len(inp.userHistory[i].questions) :
            ~inp.userHistory[i].questions[j].hasUserResponse

questionsWithTimeDiff(scenario, now) ==
    [j \in 1..Len(scenario.questions) |->
        [questionText |-> scenario.questions[j].questionText,
         userResponse |-> scenario.questions[j].userResponse,
         timeSinceResponse |->
            [nan |-> FALSE,
             ms |-> now - scenario.questions[j].userResponse.submittedAt]]]

scenariosWithTimeDiff(inp, now) ==
    [i \in 1..Len(inp.userHistory) |->
        [scenarioContent |-> inp.userHistory[i].scenarioContent,
         questions |-> questionsWithTimeDiff(inp.userHistory[i], now),
         seenAt |-> inp.userHistory[i].seenAt,
         timeSinceScenario |-> TimeSince(now, inp.userHistory[i].seenAt)]]

----------------------------------------------------------------------------
(* Prompt Builder: the template as a sequence of sections *)

NoDays == [nan |-> FALSE, neg |-> FALSE, hundredths |-> 0]

Section(kind, text, days, entries) ==
    [kind |-> kind, text |-> text, days |-> days, entries |-> entries]

QuestionEntry(q, qIndex) ==
    [index |-> qIndex + 1,
     questionText |-> q.questionText,
     responseContent |-> q.userResponse.responseContent,
     responseTimeSeconds |-> q.userResponse.responseTimeSeconds,
     targetLanguageTextShown |-> q.userResponse.targetLanguageTextShown,
     nativeLanguageTextShown |-> q.userResponse.nativeLanguageTextShown,
     days |-> ToFixed2(q.timeSinceResponse)]

ScenarioEntry(scenario, index) ==
    [index |-> index + 1,
     days |-> ToFixed2(scenario.timeSinceScenario),
     content |-> scenario.scenarioContent,
     questions |-> [j \in 1..Len(scenario.questions) |->
                      QuestionEntry(scenario.questions[j], j - 1)]]

\* The recency clause taken from the first element of the history.
RecencyClauseFirst(swtd) ==
    IF Len(swtd) > 0
    THEN Section("recency", <<>>, ToFixed2(swtd[1].timeSinceScenario), <<>>)
    ELSE Section("first", <<>>, NoDays, <<>>)

RecencyClause(swtd) ==
    IF Len(swtd) > 0
    THEN Section("recency", <<>>, ToFixed2(swtd[Len(swtd)].timeSinceScenario), <<>>)
    ELSE Section("first", <<>>, NoDays, <<>>)

HistoryClause(inp, swtd) ==
    IF Len(swtd) > 0
    THEN << Section("history", <<>>, NoDays,
                    [i \in 1..Len(swtd) |-> ScenarioEntry(swtd[i], i - 1)]),
            Section("analysis", <<>>, NoDays, <<>>) >>
    ELSE << Section("balanced", <<inp.currentLevel>>, NoDays, <<>>) >>

BuildPrompt(inp, swtd) ==
    << Section("framing", <<inp.language, inp.currentLevel, inp.nativeLanguage>>,
               NoDays, <<>>),
       RecencyClause(swtd),
       Section("passage", <<inp.language, inp.currentLevel, inp.currentLevel>>,
               NoDays, <<>>),
       Section("questions", <<inp.language, inp.currentLevel>>, NoDays, <<>>) >>
    \o HistoryClause(inp, swtd)
    \o << Section("culture", <<inp.language, inp.currentLevel>>, NoDays, <<>>),
          Section("closing", <<inp.language>>, NoDays, <<>>) >>

----------------------------------------------------------------------------
(* Result Dispatcher *)

Call(name, arg) == [name |-> name, arg |-> arg]

Settled(state, value) == [state |-> state, value |-> value]

Pending == Settled("pending", Undefined)

\* A catch block that drops the error without calling onError.
CatchBlockSilent(opts, error) ==
    [calls |-> <<>>, promise |-> Settled("fulfilled", Undefined)]

\* A catch block that rethrows when there is no onError to call.
CatchBlockRethrow(opts, error) ==
    IF opts.onError = "absent"
    THEN [calls |-> <<>>, promise |-> Settled("rejected", error)]
    ELSE IF opts.onError = "returns"
    THEN [calls |-> <<Call("onError", error)>>,
          promise |-> Settled("fulfilled", Undefined)]
    ELSE [calls |-> <<Call("onError", error)>>,
          promise |-> Settled("rejected", ErrVal("OnErrorError"))]

CatchBlock(opts, error) ==
    IF opts.onError = "absent"
    THEN [calls |-> <<>>, promise |-> Settled("fulfilled", Undefined)]
    ELSE IF opts.onError = "returns"
    THEN [calls |-> <<Call("onError", error)>>,
          promise |-> Settled("fulfilled", Undefined)]
    ELSE [calls |-> <<Call("onError", error)>>,
          promise |-> Settled("rejected", ErrVal("OnErrorError"))]

\* A continuation that calls the service a second time after a rejection.
AfterAwaitRetry(opts, aw) ==
    IF aw.state = "fulfilled"
    THEN IF opts.onFinish = "absent"
         THEN [calls |-> <<>>, promise |-> Settled("fulfilled", Undefined)]
         ELSE [calls |-> <<Call("onFinish", aw.value)>>,
               promise |-> Settled("fulfilled", Undefined)]
    ELSE [calls |-> <<Call("generateObject", Undefined)>>,
          promise |-> Settled("fulfilled", Undefined)]

\* A continuation whose onFinish call sits after the try block.
AfterAwaitUnguarded(opts, aw) ==
    IF aw.state = "fulfilled"
    THEN IF opts.onFinish = "absent"
         THEN [calls |-> <<>>, promise |-> Settled("fulfilled", Undefined)]
         ELSE IF opts.onFinish = "returns"
         THEN [calls |-> <<Call("onFinish", aw.value)>>,
               promise |-> Settled("fulfilled", Undefined)]
         ELSE [calls |-> <<Call("onFinish", aw.value)>>,
               promise |-> Settled("rejected", ErrVal("OnFinishError"))]
    ELSE [calls |-> IF opts.onError = "absent" THEN <<>>
                    ELSE <<Call("onError", aw.value)>>,
          promise |-> IF opts.onError = "throws"
                      THEN Settled("rejected", ErrVal("OnErrorError"))
                      ELSE Settled("fulfilled", Undefined)]

AfterAwait(opts, aw) ==
    IF aw.state = "fulfilled"
    THEN IF opts.onFinish = "absent"
         THEN [calls |-> <<>>, promise |-> Settled("fulfilled", Undefined)]
         ELSE IF opts.onFinish = "returns"
         THEN [calls |-> <<Call("onFinish", aw.value)>>,
               promise |-> Settled("fulfilled", Undefined)]
         ELSE LET c == CatchBlock(opts, ErrVal("OnFinishError"))
              IN  [calls |-> <<Call("onFinish", aw.value)>> \o c.calls,
                   promise |-> c.promise]
    ELSE CatchBlock(opts, aw.value)

\* generateObject (library "ai") called with schema GenerateScenarioOutputSchema:
\* it rejects on a transport failure and on a result that fails the schema,
\* and resolves with the validated object otherwise.
generateObject(result) ==
    IF result.tag = "error" THEN Settled("rejected", result)
    ELSE IF GenerateScenarioOutputSchema(result) THEN Settled("fulfilled", result)
    ELSE Settled("rejected", ErrVal("TypeValidationError"))

----------------------------------------------------------------------------
(* The invocation as a state machine *)

DefaultInput ==
    [language |-> "Spanish", currentLevel |-> "A2", nativeLanguage |-> "English",
     hasUserHistory |-> TRUE, userHistory |-> <<>>]

DefaultOptions == [defined |-> FALSE, onFinish |-> "absent", onError |-> "absent"]

Init ==
    /\ pc = "idle"
    /\ input = DefaultInput
    /\ options = DefaultOptions
    /\ currentTime = T0
    /\ prompt = <<>>
    /\ serviceResult = Undefined
    /\ awaited = Settled("none", Undefined)
    /\ trace = <<>>
    /\ promise = Settled("none", Undefined)

\* The body with normalisation and prompt construction inside the try block.
generateScenarioGuarded(inp, opts, now) ==
    /\ input' = inp
    /\ options' = opts
    /\ currentTime' = now
    /\ serviceResult' = Undefined
    /\ IF NormalizeThrows(inp)
       THEN /\ prompt' = <<>>
            /\ trace' = CatchBlock(opts, ErrVal("TypeError")).calls
            /\ awaited' = Settled("none", Undefined)
            /\ promise' = CatchBlock(opts, ErrVal("TypeError")).promise
            /\ pc' = "done"
       ELSE /\ prompt' = BuildPrompt(inp, scenariosWithTimeDiff(inp, now))
            /\ trace' = <<Call("generateObject", Undefined)>>
            /\ awaited' = Pending
            /\ promise' = Pending
            /\ pc' = "awaiting"

\* The call and the synchronous part of the body, up to the await.
generateScenario(inp, opts, now) ==
    /\ input' = inp
    /\ options' = opts
    /\ currentTime' = now
    /\ serviceResult' = Undefined
    /\ IF NormalizeThrows(inp)
       THEN /\ prompt' = <<>>
            /\ trace' = <<>>
            /\ awaited' = Settled("none", Undefined)
            /\ promise' = Settled("rejected", ErrVal("TypeError"))
            /\ pc' = "done"
       ELSE /\ prompt' = BuildPrompt(inp, scenariosWithTimeDiff(inp, now))
            /\ trace' = <<Call("generateObject", Undefined)>>
            /\ awaited' = Pending
            /\ promise' = Pending
            /\ pc' = "awaiting"

Invoke ==
    /\ pc = "idle"
    /\ \E inp \in Inputs, opts \in OptionsValues, now \in Clock :
          generateScenario(inp, opts, now)

\* The external service answers; generateObject validates the answer.
ServiceAnswers(result) ==
    /\ serviceResult' = result
    /\ awaited' = generateObject(result)
    /\ pc' = "settled"
    /\ UNCHANGED <<input, options, currentTime, prompt, trace, promise>>

ServiceSettles ==
    /\ pc = "awaiting"
    /\ \E result \in ServiceResults : ServiceAnswers(result)

\* The continuation after the await, to the end of the function.
Resume ==
    /\ pc = "settled"
    /\ LET r == AfterAwait(options, awaited)
       IN  /\ trace' = trace \o r.calls
           /\ promise' = r.promise
    /\ pc' = "done"
    /\ UNCHANGED <<input, options, currentTime, prompt, serviceResult, awaited>>

Next ==
    \/ Invoke
    \/ ServiceSettles
    \/ Resume

Spec == Init /\ [][Next]_vars

----------------------------------------------------------------------------
(* Properties *)

Count(name) == Cardinality({i \in 1..Len(trace) : trace[i].name = name})

Callbacks == {"onFinish", "onError"}

CallbackCalls == SelectSeq(trace, LAMBDA c : c.name \in Callbacks)

\* The input has a place where normalisation dereferences undefined.
MalformedInput ==
    \/ ~input.hasUserHistory
    \/ \E i \in 1..Len(input.userHistory) :
         \E j \in 1..Len(input.userHistory[i].questions) :
            ~input.userHistory[i].questions[j].hasUserResponse

\* C1: when both callbacks are supplied (and the input is schema-valid), a
\* finished invocation has called exactly one of onFinish and onError, and
\* neither more than once, whatever the service and the callbacks did.
ExactlyOneCallbackFires ==
    (/\ pc = "done"
     /\ GenerateScenarioInputSchema(input)
     /\ options.onFinish # "absent"
     /\ options.onError # "absent")
    => /\ Count("onFinish") + Count("onError") = 1
       /\ Count("onFinish") <= 1
       /\ Count("onError") <= 1

\* C2: when the generateObject call rejects and onError is supplied, the
\* finished invocation has called onError exactly once, with the rejection
\* value, and has not called onFinish.
RejectionRoutedToOnError ==
    (/\ pc = "done"
     /\ awaited.state = "rejected"
     /\ options.onError # "absent")
    => /\ Count("onError") = 1
       /\ Count("onFinish") = 0
       /\ CallbackCalls = <<Call("onError", awaited.value)>>
       /\ (serviceResult.tag = "error" => awaited.value = serviceResult)

RejectionRoutedToOnErrorWitness ==
    /\ pc = "done"
    /\ serviceResult = ErrVal("NetworkError")
    /\ awaited.state = "rejected"
    /\ options.onError = "returns"
    /\ CallbackCalls = <<Call("onError", ErrVal("NetworkError"))>>

\* C3: onFinish is never called with fewer than 2 or more than 4 questions; a
\* service result with 2, 3 or 4 questions is handed to onFinish, one with 1
\* or 5 questions goes to onError and never to onFinish.
QuestionCountAllOrNothing ==
    /\ \A i \in 1..Len(trace) :
          trace[i].name = "onFinish" =>
             /\ Len(trace[i].arg.questions) >= 2
             /\ Len(trace[i].arg.questions) <= 4
    /\ (/\ pc = "done"
        /\ serviceResult.tag = "object"
        /\ Len(serviceResult.questions) \in {2, 3, 4}
        /\ options.onFinish # "absent")
       => /\ Count("onFinish") = 1
          /\ trace[2] = Call("onFinish", serviceResult)
    /\ (/\ pc = "done"
        /\ serviceResult.tag = "object"
        /\ Len(serviceResult.questions) \in {1, 5})
       => /\ Count("onFinish") = 0
          /\ awaited.state = "rejected"
          /\ (options.onError # "absent" => Count("onError") = 1)

QuestionCountAllOrNothingWitness ==
    /\ pc = "done"
    /\ serviceResult.tag = "object"
    /\ Len(serviceResult.questions) = 4
    /\ options.onFinish = "returns"
    /\ CallbackCalls = <<Call("onFinish", serviceResult)>>

\* C4: for an input that does not conform to GenerateScenarioInputSchema the
\* external service is never called.
InvalidInputNeverReachesService ==
    ~GenerateScenarioInputSchema(input) => Count("generateObject") = 0

FailureSwallowedWithoutCallbacks ==
    (/\ pc = "done"
     /\ awaited.state = "rejected"
     /\ options.onFinish = "absent"
     /\ options.onError = "absent")
    => /\ CallbackCalls = <<>>
       /\ promise = Settled("fulfilled", Undefined)

FailureSwallowedWitness ==
    /\ pc = "done"
    /\ awaited.state = "rejected"
    /\ ~options.defined
    /\ promise.state = "fulfilled"

\* C7: the external service is called at most once per invocation, and a
\* callback is called only after that call was made and has settled.
NoRetries ==
    /\ Count("generateObject") <= 1
    /\ \A i \in 1..Len(trace) :
          trace[i].name \in Callbacks =>
             /\ awaited.state \in {"fulfilled", "rejected"}
             /\ pc = "done"
             /\ \E j \in 1..(i - 1) : trace[j].name = "generateObject"

NoRetriesWitness ==
    /\ pc = "done"
    /\ awaited.state = "rejected"
    /\ Count("generateObject") = 1
    /\ Count("onError") = 1

\* C8: onFinish is never called with an empty scenarioContent.
ScenarioContentNonEmpty ==
    \A i \in 1..Len(trace) :
       trace[i].name = "onFinish" => trace[i].arg.scenarioContent # ""

\* The formatted day count d is the two-decimal rendering of the time from
\* seenAt to now: NaN when seenAt is no number, otherwise signed, and within
\* half a hundredth of a day of the elapsed time.
DaysRendered(d, seenAt, now) ==
    IF ~seenAt.isNumber THEN d.nan
    ELSE /\ ~d.nan
         /\ d.neg = (seenAt.ms > now)
         /\ 2 * Abs(now - seenAt.ms) >= (2 * d.hundredths - 1) * (DayMs \div 100)
         /\ 2 * Abs(now - seenAt.ms) < (2 * d.hundredths + 1) * (DayMs \div 100)

PromptKinds == [i \in 1..Len(prompt) |-> prompt[i].kind]

\* C9: the history-dependent sections of the prompt are chosen by whether
\* userHistory is empty.  Non-empty: the recency clause renders the elapsed
\* days of the LAST history element (negative when its seenAt lies in the
\* future), the transcript has one entry per historical scenario, in input
\* order, and the analysis directives follow.  Empty: the first-scenario
\* statement and the balanced-content directive, no transcript or analysis.
PromptVariants ==
    (pc # "idle" /\ prompt # <<>>) =>
       LET h == input.userHistory
       IN  IF Len(h) = 0
           THEN PromptKinds = <<"framing", "first", "passage", "questions",
                                "balanced", "culture", "closing">>
           ELSE /\ PromptKinds = <<"framing", "recency", "passage", "questions",
                                   "history", "analysis", "culture", "closing">>
                /\ DaysRendered(prompt[2].days, h[Len(h)].seenAt, currentTime)
                /\ Len(prompt[5].entries) = Len(h)
                /\ \A i \in 1..Len(h) :
                      /\ prompt[5].entries[i].index = i
                      /\ prompt[5].entries[i].content = h[i].scenarioContent
                      /\ DaysRendered(prompt[5].entries[i].days, h[i].seenAt,
                                      currentTime)
                      /\ Len(prompt[5].entries[i].questions) = Len(h[i].questions)
                      /\ \A j \in 1..Len(h[i].questions) :
                            /\ prompt[5].entries[i].questions[j].index = j
                            /\ prompt[5].entries[i].questions[j].questionText
                                  = h[i].questions[j].questionText
                            /\ prompt[5].entries[i].questions[j].responseContent
                                  = h[i].questions[j].userResponse.responseContent

\* The last history element is older than the first, which lies in the future.
PromptVariantsWitness ==
    /\ pc = "awaiting"
    /\ Len(input.userHistory) = 2
    /\ input.userHistory[1].seenAt.isNumber
    /\ input.userHistory[1].seenAt.ms > currentTime
    /\ input.userHistory[2].seenAt.isNumber
    /\ input.userHistory[2].seenAt.ms < currentTime
    /\ prompt[2].kind = "recency"
    /\ ~prompt[2].days.neg
    /\ prompt[2].days.hundredths = 700
    /\ prompt[5].entries[1].days.neg

\* C10: when the external call succeeds and onFinish throws, the exception is
\* caught and passed to onError (onFinish, then onError) and the returned
\* promise still resolves; the returned promise rejects only when onError
\* itself throws or when normalisation throws.
OnFinishThrowIsCaught ==
    /\ (/\ pc = "done"
        /\ awaited.state = "fulfilled"
        /\ options.onFinish = "throws")
       => /\ (options.onError # "absent" =>
                CallbackCalls = <<Call("onFinish", awaited.value),
                                  Call("onError", ErrVal("OnFinishError"))>>)
          /\ (options.onError = "absent" =>
                CallbackCalls = <<Call("onFinish", awaited.value)>>)
          /\ (options.onError # "throws" =>
                promise = Settled("fulfilled", Undefined))
    /\ (pc = "done" /\ promise.state = "rejected")
       => \/ /\ options.onError = "throws"
             /\ Count("onError") = 1
             /\ trace[Len(trace)].name = "onError"
          \/ /\ MalformedInput
             /\ trace = <<>>

OnFinishThrowIsCaughtWitness ==
    /\ pc = "done"
    /\ awaited.state = "fulfilled"
    /\ options.onFinish = "throws"
    /\ options.onError = "returns"
    /\ Count("onFinish") = 1
    /\ Count("onError") = 1
    /\ promise.state = "fulfilled"

====
